----------------------------- MODULE Spec2Model -----------------------------
(***************************************************************************)
(* The notebook "Feature Matrix with Dask EntitySet" as a state machine.   *)
(*                                                                         *)
(* The state is the kernel's namespace (client, the dataframes, es,        *)
(* cutoff_times, fm, fm_computed), the CSV files on disk, the worker pools *)
(* that are open, and the position of a Run-All execution in the sequence  *)
(* of code cells.  Every code cell is one action; a statement that raises  *)
(* ends its cell at that statement and halts the run, leaving what the     *)
(* earlier statements of the cell assigned.                                *)
(*                                                                         *)
(* Dataframes carry the names of all their columns and, per row, the       *)
(* values of the tracked columns: the three key columns, the generated     *)
(* index columns and DAYS_EMPLOYED.                                        *)
(***************************************************************************)
EXTENDS Integers, Sequences, FiniteSets, TLC

\* ------------------------------------------------------------- bounds ----
\* Size of the input: data rows over all CSV files plus files whose header
\* has a column that no variable-type dictionary lists.
MaxInput == 2
\* Largest regular key value in the CSV files.
MaxKey == 1
\* Run-All executions in one kernel.
MaxRuns == 2

\* ---------------------------------------------------------- constants ----
\* The anomalous value of the datasets (line 125).
SENTINEL == 365243
\* np.nan, the missing value: encoded as a number outside the key values.
NaN == -1

\* A Python dict literal as a function: a repeated key keeps its last value.
Dict(items) ==
    [k \in {items[i][1] : i \in DOMAIN items} |->
        LET last == CHOOSE i \in DOMAIN items :
                        /\ items[i][1] = k
                        /\ \A j \in DOMAIN items : items[j][1] = k => j <= i
        IN  items[last][2]]

\* primitive_dict: version -> <<trans_primitives, agg_primitives,
\* num_workers, blocksize>> (blocksize in MB).
primitive_dict ==
    [v \in {"v1", "v2", "v3", "v4"} |->
        CASE v = "v1" -> << <<"and">>, <<"sum", "max">>, 4, 40 >>
          [] v = "v2" -> << <<"and">>, <<"sum", "max", "min", "mean">>, 1, 100 >>
          [] v = "v3" -> << <<"and", "add_numeric", "negate">>, << >>, 4, 1 >>
          [] v = "v4" -> << <<"and", "negate">>,
                            <<"sum", "max", "min", "mean", "count", "any", "all">>,
                            1, 100 >>]

version == "v1"
trans_primitives == primitive_dict[version][1]
agg_primitives == primitive_dict[version][2]
num_workers == primitive_dict[version][3]
blocksize == primitive_dict[version][4]

\* app_vtypes: the variable-type dictionary of lines 176-299, as its
\* (column, type) entries in source order.
app_vtypes_items ==
    <<
       <<"SK_ID_CURR", "Index">>, <<"AMT_ANNUITY", "Numeric">>,
       <<"AMT_CREDIT", "Numeric">>, <<"AMT_GOODS_PRICE", "Numeric">>,
       <<"AMT_INCOME_TOTAL", "Numeric">>, <<"AMT_REQ_CREDIT_BUREAU_DAY", "Numeric">>,
       <<"AMT_REQ_CREDIT_BUREAU_HOUR", "Numeric">>, <<"AMT_REQ_CREDIT_BUREAU_MON", "Numeric">>,
       <<"AMT_REQ_CREDIT_BUREAU_QRT", "Numeric">>, <<"AMT_REQ_CREDIT_BUREAU_WEEK", "Numeric">>,
       <<"AMT_REQ_CREDIT_BUREAU_YEAR", "Numeric">>, <<"APARTMENTS_AVG", "Numeric">>,
       <<"APARTMENTS_MEDI", "Numeric">>, <<"APARTMENTS_MODE", "Numeric">>,
       <<"BASEMENTAREA_AVG", "Numeric">>, <<"BASEMENTAREA_MEDI", "Numeric">>,
       <<"BASEMENTAREA_MODE", "Numeric">>, <<"CNT_CHILDREN", "Numeric">>,
       <<"CNT_FAM_MEMBERS", "Numeric">>, <<"CODE_GENDER", "Categorical">>,
       <<"COMMONAREA_AVG", "Numeric">>, <<"COMMONAREA_MEDI", "Numeric">>,
       <<"COMMONAREA_MODE", "Numeric">>, <<"DAYS_BIRTH", "Numeric">>,
       <<"DAYS_EMPLOYED", "Numeric">>, <<"DAYS_ID_PUBLISH", "Numeric">>,
       <<"DAYS_LAST_PHONE_CHANGE", "Numeric">>, <<"DAYS_REGISTRATION", "Numeric">>,
       <<"DEF_30_CNT_SOCIAL_CIRCLE", "Numeric">>, <<"DEF_60_CNT_SOCIAL_CIRCLE", "Numeric">>,
       <<"ELEVATORS_AVG", "Numeric">>, <<"ELEVATORS_MEDI", "Numeric">>,
       <<"ELEVATORS_MODE", "Numeric">>, <<"EMERGENCYSTATE_MODE", "Categorical">>,
       <<"ENTRANCES_AVG", "Numeric">>, <<"ENTRANCES_MEDI", "Numeric">>,
       <<"ENTRANCES_MODE", "Numeric">>, <<"EXT_SOURCE_1", "Numeric">>,
       <<"EXT_SOURCE_2", "Numeric">>, <<"EXT_SOURCE_3", "Numeric">>,
       <<"FLAG_CONT_MOBILE", "Boolean">>, <<"FLAG_DOCUMENT_10", "Boolean">>,
       <<"FLAG_DOCUMENT_11", "Boolean">>, <<"FLAG_DOCUMENT_12", "Boolean">>,
       <<"FLAG_DOCUMENT_13", "Boolean">>, <<"FLAG_DOCUMENT_14", "Boolean">>,
       <<"FLAG_DOCUMENT_15", "Boolean">>, <<"FLAG_DOCUMENT_16", "Boolean">>,
       <<"FLAG_DOCUMENT_17", "Boolean">>, <<"FLAG_DOCUMENT_18", "Boolean">>,
       <<"FLAG_DOCUMENT_19", "Boolean">>, <<"FLAG_DOCUMENT_2", "Boolean">>,
       <<"FLAG_DOCUMENT_20", "Boolean">>, <<"FLAG_DOCUMENT_21", "Boolean">>,
       <<"FLAG_DOCUMENT_3", "Boolean">>, <<"FLAG_DOCUMENT_4", "Boolean">>,
       <<"FLAG_DOCUMENT_5", "Boolean">>, <<"FLAG_DOCUMENT_6", "Boolean">>,
       <<"FLAG_DOCUMENT_7", "Boolean">>, <<"FLAG_DOCUMENT_8", "Boolean">>,
       <<"FLAG_DOCUMENT_9", "Boolean">>, <<"FLAG_EMAIL", "Boolean">>,
       <<"FLAG_EMP_PHONE", "Boolean">>, <<"FLAG_MOBIL", "Boolean">>,
       <<"FLAG_OWN_CAR", "Categorical">>, <<"FLAG_OWN_REALTY", "Categorical">>,
       <<"FLAG_PHONE", "Boolean">>, <<"FLAG_WORK_PHONE", "Boolean">>,
       <<"FLOORSMAX_AVG", "Numeric">>, <<"FLOORSMAX_MEDI", "Numeric">>,
       <<"FLOORSMAX_MODE", "Numeric">>, <<"FLOORSMIN_AVG", "Numeric">>,
       <<"FLOORSMIN_MEDI", "Numeric">>, <<"FLOORSMIN_MODE", "Numeric">>,
       <<"FONDKAPREMONT_MODE", "Categorical">>, <<"HOUR_APPR_PROCESS_START", "Numeric">>,
       <<"HOUSETYPE_MODE", "Categorical">>, <<"LANDAREA_AVG", "Numeric">>,
       <<"LANDAREA_MEDI", "Numeric">>, <<"LANDAREA_MODE", "Numeric">>,
       <<"LIVE_CITY_NOT_WORK_CITY", "Boolean">>, <<"LIVE_REGION_NOT_WORK_REGION", "Boolean">>,
       <<"LIVINGAPARTMENTS_AVG", "Numeric">>, <<"LIVINGAPARTMENTS_MEDI", "Numeric">>,
       <<"LIVINGAPARTMENTS_MODE", "Numeric">>, <<"LIVINGAREA_AVG", "Numeric">>,
       <<"LIVINGAREA_MEDI", "Numeric">>, <<"LIVINGAREA_MODE", "Numeric">>,
       <<"NAME_CONTRACT_TYPE", "Categorical">>, <<"NAME_EDUCATION_TYPE", "Categorical">>,
       <<"NAME_FAMILY_STATUS", "Categorical">>, <<"NAME_HOUSING_TYPE", "Categorical">>,
       <<"NAME_INCOME_TYPE", "Categorical">>, <<"NAME_TYPE_SUITE", "Categorical">>,
       <<"NONLIVINGAPARTMENTS_AVG", "Numeric">>, <<"NONLIVINGAPARTMENTS_MEDI", "Numeric">>,
       <<"NONLIVINGAPARTMENTS_MODE", "Numeric">>, <<"NONLIVINGAREA_AVG", "Numeric">>,
       <<"NONLIVINGAREA_MEDI", "Numeric">>, <<"NONLIVINGAREA_MODE", "Numeric">>,
       <<"OBS_30_CNT_SOCIAL_CIRCLE", "Numeric">>, <<"OBS_60_CNT_SOCIAL_CIRCLE", "Numeric">>,
       <<"OCCUPATION_TYPE", "Categorical">>, <<"ORGANIZATION_TYPE", "Categorical">>,
       <<"OWN_CAR_AGE", "Numeric">>, <<"REGION_POPULATION_RELATIVE", "Numeric">>,
       <<"REGION_RATING_CLIENT", "Numeric">>, <<"REGION_RATING_CLIENT_W_CITY", "Numeric">>,
       <<"REG_CITY_NOT_LIVE_CITY", "Boolean">>, <<"REG_CITY_NOT_WORK_CITY", "Boolean">>,
       <<"REG_REGION_NOT_LIVE_REGION", "Boolean">>, <<"REG_REGION_NOT_WORK_REGION", "Boolean">>,
       <<"TARGET", "Numeric">>, <<"TOTALAREA_MODE", "Numeric">>,
       <<"WALLSMATERIAL_MODE", "Categorical">>, <<"WEEKDAY_APPR_PROCESS_START", "Categorical">>,
       <<"YEARS_BEGINEXPLUATATION_AVG", "Numeric">>, <<"YEARS_BEGINEXPLUATATION_MEDI", "Numeric">>,
       <<"YEARS_BEGINEXPLUATATION_MODE", "Numeric">>, <<"YEARS_BUILD_AVG", "Numeric">>,
       <<"YEARS_BUILD_MEDI", "Numeric">>, <<"YEARS_BUILD_MODE", "Numeric">>
    >>

app_vtypes ==
    Dict(app_vtypes_items)

\* bureau_vtypes: the variable-type dictionary of lines 301-319, as its
\* (column, type) entries in source order.
bureau_vtypes_items ==
    <<
       <<"SK_ID_BUREAU", "Index">>, <<"SK_ID_CURR", "Id">>,
       <<"CREDIT_ACTIVE", "Categorical">>, <<"CREDIT_CURRENCY", "Categorical">>,
       <<"DAYS_CREDIT", "Numeric">>, <<"CREDIT_DAY_OVERDUE", "Numeric">>,
       <<"DAYS_CREDIT_ENDDATE", "Numeric">>, <<"DAYS_ENDDATE_FACT", "Numeric">>,
       <<"AMT_CREDIT_MAX_OVERDUE", "Numeric">>, <<"CNT_CREDIT_PROLONG", "Numeric">>,
       <<"AMT_CREDIT_SUM", "Numeric">>, <<"AMT_CREDIT_SUM_DEBT", "Numeric">>,
       <<"AMT_CREDIT_SUM_LIMIT", "Numeric">>, <<"AMT_CREDIT_SUM_OVERDUE", "Numeric">>,
       <<"CREDIT_TYPE", "Categorical">>, <<"DAYS_CREDIT_UPDATE", "Numeric">>,
       <<"AMT_ANNUITY", "Numeric">>
    >>

\* bureau_vtypes with the join key SK_ID_CURR typed as a number.
bureau_vtypes_numeric_key ==
    [c \in DOMAIN Dict(bureau_vtypes_items) |->
        IF c = "SK_ID_CURR" THEN "Numeric" ELSE Dict(bureau_vtypes_items)[c]]

bureau_vtypes ==
    Dict(bureau_vtypes_items)

\* previous_vtypes: the variable-type dictionary of lines 321-359, as its
\* (column, type) entries in source order.
previous_vtypes_items ==
    <<
       <<"SK_ID_PREV", "Index">>, <<"SK_ID_CURR", "Id">>,
       <<"NAME_CONTRACT_TYPE", "Categorical">>, <<"AMT_ANNUITY", "Numeric">>,
       <<"AMT_APPLICATION", "Numeric">>, <<"AMT_CREDIT", "Numeric">>,
       <<"AMT_DOWN_PAYMENT", "Numeric">>, <<"AMT_GOODS_PRICE", "Numeric">>,
       <<"WEEKDAY_APPR_PROCESS_START", "Categorical">>, <<"HOUR_APPR_PROCESS_START", "Numeric">>,
       <<"FLAG_LAST_APPL_PER_CONTRACT", "Categorical">>, <<"NFLAG_LAST_APPL_IN_DAY", "Boolean">>,
       <<"RATE_DOWN_PAYMENT", "Numeric">>, <<"RATE_INTEREST_PRIMARY", "Numeric">>,
       <<"RATE_INTEREST_PRIVILEGED", "Numeric">>, <<"NAME_CASH_LOAN_PURPOSE", "Categorical">>,
       <<"NAME_CONTRACT_STATUS", "Categorical">>, <<"DAYS_DECISION", "Numeric">>,
       <<"NAME_PAYMENT_TYPE", "Categorical">>, <<"CODE_REJECT_REASON", "Categorical">>,
       <<"NAME_TYPE_SUITE", "Categorical">>, <<"NAME_CLIENT_TYPE", "Categorical">>,
       <<"NAME_GOODS_CATEGORY", "Categorical">>, <<"NAME_PORTFOLIO", "Categorical">>,
       <<"NAME_PRODUCT_TYPE", "Categorical">>, <<"CHANNEL_TYPE", "Categorical">>,
       <<"SELLERPLACE_AREA", "Numeric">>, <<"NAME_SELLER_INDUSTRY", "Categorical">>,
       <<"CNT_PAYMENT", "Numeric">>, <<"NAME_YIELD_GROUP", "Categorical">>,
       <<"PRODUCT_COMBINATION", "Categorical">>, <<"DAYS_FIRST_DRAWING", "Numeric">>,
       <<"DAYS_FIRST_DUE", "Numeric">>, <<"DAYS_LAST_DUE_1ST_VERSION", "Numeric">>,
       <<"DAYS_LAST_DUE", "Numeric">>, <<"DAYS_TERMINATION", "Numeric">>,
       <<"NFLAG_INSURED_ON_APPROVAL", "Numeric">>
    >>

previous_vtypes ==
    Dict(previous_vtypes_items)

\* bureau_balance_vtypes: the variable-type dictionary of lines 361-366, as its
\* (column, type) entries in source order.
bureau_balance_vtypes_items ==
    <<
       <<"bureaubalance_index", "Index">>, <<"SK_ID_BUREAU", "Id">>,
       <<"MONTHS_BALANCE", "Numeric">>, <<"STATUS", "Categorical">>
    >>

bureau_balance_vtypes ==
    Dict(bureau_balance_vtypes_items)

\* cash_vtypes: the variable-type dictionary of lines 368-377, as its
\* (column, type) entries in source order.
cash_vtypes_items ==
    <<
       <<"cash_index", "Index">>, <<"SK_ID_PREV", "Id">>,
       <<"MONTHS_BALANCE", "Numeric">>, <<"CNT_INSTALMENT", "Numeric">>,
       <<"CNT_INSTALMENT_FUTURE", "Numeric">>, <<"NAME_CONTRACT_STATUS", "Categorical">>,
       <<"SK_DPD", "Numeric">>, <<"SK_DPD_DEF", "Numeric">>
    >>

cash_vtypes ==
    Dict(cash_vtypes_items)

\* installments_vtypes: the variable-type dictionary of lines 379-388, as its
\* (column, type) entries in source order.
installments_vtypes_items ==
    <<
       <<"installments_index", "Index">>, <<"SK_ID_PREV", "Id">>,
       <<"NUM_INSTALMENT_VERSION", "Numeric">>, <<"NUM_INSTALMENT_NUMBER", "Numeric">>,
       <<"DAYS_INSTALMENT", "Numeric">>, <<"DAYS_ENTRY_PAYMENT", "Numeric">>,
       <<"AMT_INSTALMENT", "Numeric">>, <<"AMT_PAYMENT", "Numeric">>
    >>

installments_vtypes ==
    Dict(installments_vtypes_items)

\* credit_vtypes: the variable-type dictionary of lines 390-414, as its
\* (column, type) entries in source order.
credit_vtypes_items ==
    <<
       <<"credit_index", "Index">>, <<"SK_ID_PREV", "Id">>,
       <<"MONTHS_BALANCE", "Numeric">>, <<"AMT_BALANCE", "Numeric">>,
       <<"AMT_CREDIT_LIMIT_ACTUAL", "Numeric">>, <<"AMT_DRAWINGS_ATM_CURRENT", "Numeric">>,
       <<"AMT_DRAWINGS_CURRENT", "Numeric">>, <<"AMT_DRAWINGS_OTHER_CURRENT", "Numeric">>,
       <<"AMT_DRAWINGS_POS_CURRENT", "Numeric">>, <<"AMT_INST_MIN_REGULARITY", "Numeric">>,
       <<"AMT_PAYMENT_CURRENT", "Numeric">>, <<"AMT_PAYMENT_TOTAL_CURRENT", "Numeric">>,
       <<"AMT_RECEIVABLE_PRINCIPAL", "Numeric">>, <<"AMT_RECIVABLE", "Numeric">>,
       <<"AMT_TOTAL_RECEIVABLE", "Numeric">>, <<"CNT_DRAWINGS_ATM_CURRENT", "Numeric">>,
       <<"CNT_DRAWINGS_CURRENT", "Numeric">>, <<"CNT_DRAWINGS_OTHER_CURRENT", "Numeric">>,
       <<"CNT_DRAWINGS_POS_CURRENT", "Numeric">>, <<"CNT_INSTALMENT_MATURE_CUM", "Numeric">>,
       <<"NAME_CONTRACT_STATUS", "Categorical">>, <<"SK_DPD", "Numeric">>,
       <<"SK_DPD_DEF", "Numeric">>
    >>

credit_vtypes ==
    Dict(credit_vtypes_items)
\* ------------------------------------------------------------ helpers ----
Range(s) == {s[i] : i \in DOMAIN s}

\* The position of x in the sequence s (0 when absent).
IndexOf(s, x) ==
    IF x \in Range(s) THEN CHOOSE i \in DOMAIN s : s[i] = x ELSE 0

\* --------------------------------------------------------- dataframes ----
\* Columns whose values the model tracks.
KeyColumns == <<"SK_ID_CURR", "SK_ID_PREV", "SK_ID_BUREAU">>
TrackedColumns == Range(KeyColumns) \cup {"DAYS_EMPLOYED"}

\* A dataframe: its column names and its rows, a row giving the values of
\* the tracked columns among them.
Frame(columns, rows) == [columns |-> columns, rows |-> rows]

\* A name of the namespace that no cell has assigned yet.
Unbound == Frame({}, << >>)

\* The CSV files, in the order the ingestion cell reads them.
ReadOrder ==
    <<"app_train", "app_test", "bureau", "bureau_balance",
      "cash", "credit", "previous", "installments">>
Files == Range(ReadOrder)
Datasets == Files \cup {"app"}

\* A header column that no variable-type dictionary lists.
UntypedColumn == "UNTYPED"

\* The header of each file of the dataset: the columns the notebook types,
\* and SK_ID_CURR where the cleanup cell drops it; TARGET is absent from
\* application_test, and the four generated index columns from every file.
CsvColumns(f) ==
    CASE f = "app_train"      -> DOMAIN app_vtypes
      [] f = "app_test"       -> DOMAIN app_vtypes \ {"TARGET"}
      [] f = "bureau"         -> DOMAIN bureau_vtypes
      [] f = "bureau_balance" -> DOMAIN bureau_balance_vtypes \ {"bureaubalance_index"}
      [] f = "cash"           -> (DOMAIN cash_vtypes \ {"cash_index"}) \cup {"SK_ID_CURR"}
      [] f = "credit"         -> (DOMAIN credit_vtypes \ {"credit_index"}) \cup {"SK_ID_CURR"}
      [] f = "previous"       -> DOMAIN previous_vtypes
      [] f = "installments"   -> (DOMAIN installments_vtypes \ {"installments_index"})
                                     \cup {"SK_ID_CURR"}

\* The headers of the eight files.
Headers == [f \in Files |-> CsvColumns(f)]

\* The values a tracked cell of a file can hold.
CellValues == (1..MaxKey) \cup {NaN, SENTINEL}

\* One data row of file f.
CsvRows(f) == [Headers[f] \cap TrackedColumns -> CellValues]
CsvEntries == UNION {{<<f, r>> : r \in CsvRows(f)} : f \in Files}

\* The rows of file f among the entries s, in order.
RowsOf(s, f) ==
    LET mine == SelectSeq(s, LAMBDA e : e[1] = f)
    IN  [i \in DOMAIN mine |-> mine[i][2]]

\* The inputs: every content of the eight files with at most MaxInput rows
\* and irregular headers together.
CsvInputs ==
    UNION { UNION {
        {[f \in Files |->
            Frame(Headers[f] \cup (IF f \in extra THEN {UntypedColumn} ELSE {}),
                  RowsOf(s, f))] :
            s \in [1..n -> CsvEntries]}
        : n \in 0..(MaxInput - Cardinality(extra)) }
        : extra \in {x \in SUBSET Files : Cardinality(x) <= MaxInput} }

\* ------------------------------------------------ ingestion and cleanup ----
\* DataFrame.replace({365243: np.nan}): every cell equal to the key of the
\* mapping becomes its value.
replace(frame, old, new) ==
    Frame(frame.columns,
          [i \in DOMAIN frame.rows |->
              [c \in DOMAIN frame.rows[i] |->
                  IF frame.rows[i][c] = old THEN new ELSE frame.rows[i][c]]])

\* The ingestion with one read that lacks the replace.
read_csv_unreplaced(files, f) ==
    IF f = "previous" THEN files[f] ELSE replace(files[f], SENTINEL, NaN)

\* dd.read_csv(file).replace({365243: np.nan})
read_csv(files, f) == replace(files[f], SENTINEL, NaN)

\* dataset[index] = dataset[index].fillna(0).astype(np.int64): the missing
\* cells of the column become 0; the cast keeps the integral values.
fillna_astype(frame, index) ==
    Frame(frame.columns,
          [i \in DOMAIN frame.rows |->
              [c \in DOMAIN frame.rows[i] |->
                  IF c = index /\ frame.rows[i][c] = NaN THEN 0
                  ELSE frame.rows[i][c]]])

\* The body of the inner loop for one dataset: the column is cleaned only
\* where the dataset has it.
clean_key(frame, index) ==
    IF index \in frame.columns THEN fillna_astype(frame, index) ELSE frame

\* The outer loop over 'SK_ID_CURR', 'SK_ID_PREV', 'SK_ID_BUREAU'.
RECURSIVE clean_keys(_, _)
clean_keys(frame, n) ==
    IF n = 0 THEN frame
    ELSE clean_key(clean_keys(frame, n - 1), KeyColumns[n])

\* frame[columns]: the projection on the given columns.
select(frame, columns) ==
    Frame(columns,
          [i \in DOMAIN frame.rows |->
              [c \in DOMAIN frame.rows[i] \cap columns |-> frame.rows[i][c]]])

\* frame.append(other): the rows of other after those of frame.
append(frame, other) ==
    Frame(frame.columns \cup other.columns, frame.rows \o other.rows)

\* frame.drop(columns=[column])
drop(frame, column) == select(frame, frame.columns \ {column})

\* The datasets the cleanup loop goes over, and those that lose SK_ID_CURR.
CleanedDatasets ==
    {"app", "bureau", "bureau_balance", "cash", "credit", "previous", "installments"}
DroppedDatasets == {"installments", "credit", "cash"}

\* ---------------------------------------------------------- entity set ----
NoError == [cell |-> "none", kind |-> "none", names |-> {}]
Raised(cell, kind, names) == [cell |-> cell, kind |-> kind, names |-> names]

\* es before the assembly cell has run, and ft.EntitySet(id='clients').
NoEntitySet == [id |-> "", entities |-> << >>, relationships |-> << >>]
EntitySet(id) == [id |-> id, entities |-> << >>, relationships |-> << >>]

\* The ids of the entities of es, and the entity es[entity_id].
EntityIds(entityset) == {entityset.entities[i].id : i \in DOMAIN entityset.entities}
Entity(entityset, entity_id) ==
    entityset.entities[CHOOSE i \in DOMAIN entityset.entities :
                           entityset.entities[i].id = entity_id]

\* The seven entity_from_dataframe calls, in order.
Registrations ==
    << [entity_id |-> "app", dataframe |-> "app", index |-> "SK_ID_CURR",
        variable_types |-> app_vtypes, make_index |-> FALSE],
       [entity_id |-> "bureau", dataframe |-> "bureau", index |-> "SK_ID_BUREAU",
        variable_types |-> bureau_vtypes, make_index |-> FALSE],
       [entity_id |-> "previous", dataframe |-> "previous", index |-> "SK_ID_PREV",
        variable_types |-> previous_vtypes, make_index |-> FALSE],
       [entity_id |-> "bureau_balance", dataframe |-> "bureau_balance",
        index |-> "bureaubalance_index",
        variable_types |-> bureau_balance_vtypes, make_index |-> TRUE],
       [entity_id |-> "cash", dataframe |-> "cash", index |-> "cash_index",
        variable_types |-> cash_vtypes, make_index |-> TRUE],
       [entity_id |-> "installments", dataframe |-> "installments",
        index |-> "installments_index",
        variable_types |-> installments_vtypes, make_index |-> TRUE],
       [entity_id |-> "credit", dataframe |-> "credit", index |-> "credit_index",
        variable_types |-> credit_vtypes, make_index |-> TRUE] >>

\* Series.cumsum(): the running sums of a column.
RECURSIVE cumsum(_)
cumsum(column) ==
    IF column = << >> THEN << >>
    ELSE LET n == Len(column)
             before == cumsum(SubSeq(column, 1, n - 1))
         IN  Append(before, (IF n = 1 THEN 0 ELSE before[n - 1]) + column[n])

\* make_index without the running sum: every row gets the same identifier.
make_index_column_ones(frame, index) ==
    Frame(frame.columns \cup {index},
          [i \in DOMAIN frame.rows |->
              [c \in DOMAIN frame.rows[i] \cup {index} |->
                  IF c = index THEN 0 ELSE frame.rows[i][c]]])

\* make_index on a Dask dataframe: the new column is set to 1 in every row
\* and then replaced by its running sum less one.
make_index_column(frame, index) ==
    LET ones == [i \in DOMAIN frame.rows |-> 1]
        sums == cumsum(ones)
    IN  Frame(frame.columns \cup {index},
              [i \in DOMAIN frame.rows |->
                  [c \in DOMAIN frame.rows[i] \cup {index} |->
                      IF c = index THEN sums[i] - 1 ELSE frame.rows[i][c]]])

\* entity_from_dataframe accepting a column that has no variable type.
entity_error_untyped(frame, index, variable_types, make_index) ==
    LET columns == frame.columns \cup {index}
    IN  IF make_index /\ index \in frame.columns THEN "RuntimeError"
        ELSE IF \E v \in DOMAIN variable_types : v \notin columns THEN "LookupError"
        ELSE "none"

\* What entity_from_dataframe raises for a Dask dataframe ("none" when it
\* returns): the index to make is already a column; a typed column is not in
\* the dataframe; a column of the dataframe has no variable type, which
\* cannot be inferred.  The values of the index column are not looked at.
entity_error(frame, index, variable_types, make_index) ==
    LET columns == frame.columns \cup {index}
    IN  IF make_index /\ index \in frame.columns THEN "RuntimeError"
        ELSE IF \E v \in DOMAIN variable_types : v \notin columns THEN "LookupError"
        ELSE IF \E c \in columns : c \notin DOMAIN variable_types THEN "ValueError"
        ELSE "none"

\* The entity that entity_from_dataframe adds.
entity_from_dataframe(entity_id, frame, index, variable_types, make_index) ==
    [id |-> entity_id,
     index |-> index,
     variables |-> variable_types,
     frame |-> IF index \in frame.columns THEN frame
               ELSE make_index_column(frame, index)]

\* The registrations carried on past one that raises, the error naming
\* every table that raised.
RECURSIVE register_continuing(_, _)
register_continuing(dataframes, n) ==
    IF n = 0 THEN [es |-> EntitySet("clients"), error |-> NoError]
    ELSE LET before == register_continuing(dataframes, n - 1)
             r == Registrations[n]
             raised == entity_error(dataframes[r.dataframe], r.index,
                                    r.variable_types, r.make_index)
         IN  IF raised # "none"
             THEN [before EXCEPT
                       !.error = Raised("entityset", raised,
                                        before.error.names \cup {r.entity_id})]
             ELSE [before EXCEPT !.es.entities =
                       Append(@, entity_from_dataframe(
                                     r.entity_id, dataframes[r.dataframe], r.index,
                                     r.variable_types, r.make_index))]

\* The registrations up to the n-th, stopping at the first that raises.
RECURSIVE register(_, _)
register(dataframes, n) ==
    IF n = 0 THEN [es |-> EntitySet("clients"), error |-> NoError]
    ELSE LET before == register(dataframes, n - 1)
             r == Registrations[n]
             raised == entity_error(dataframes[r.dataframe], r.index,
                                    r.variable_types, r.make_index)
         IN  IF before.error # NoError THEN before
             ELSE IF raised # "none"
                  THEN [before EXCEPT
                            !.error = Raised("entityset", raised, {r.entity_id})]
             ELSE [before EXCEPT !.es.entities =
                       Append(@, entity_from_dataframe(
                                     r.entity_id, dataframes[r.dataframe], r.index,
                                     r.variable_types, r.make_index))]

\* The six relationships, as <<parent entity, parent variable, child entity,
\* child variable>>.
r_app_bureau == <<"app", "SK_ID_CURR", "bureau", "SK_ID_CURR">>
r_bureau_balance == <<"bureau", "SK_ID_BUREAU", "bureau_balance", "SK_ID_BUREAU">>
\* The relationship of previous declared from bureau instead of app.
r_app_previous_misparented == <<"bureau", "SK_ID_BUREAU", "previous", "SK_ID_CURR">>
r_app_previous == <<"app", "SK_ID_CURR", "previous", "SK_ID_CURR">>
r_previous_cash == <<"previous", "SK_ID_PREV", "cash", "SK_ID_PREV">>
r_previous_installments == <<"previous", "SK_ID_PREV", "installments", "SK_ID_PREV">>
r_previous_credit == <<"previous", "SK_ID_PREV", "credit", "SK_ID_PREV">>

\* The list passed to es.add_relationships.
Relationships ==
    <<r_app_bureau, r_bureau_balance, r_app_previous,
      r_previous_cash, r_previous_installments, r_previous_credit>>

\* es[entity][variable] raises KeyError for an entity or a variable that es
\* does not have.
HasVariable(entityset, entity_id, variable) ==
    /\ entity_id \in EntityIds(entityset)
    /\ variable \in DOMAIN Entity(entityset, entity_id).variables

\* What ft.Relationship(es[p][pv], es[c][cv]) raises ("none" when it returns).
relationship_error(entityset, r) ==
    IF ~HasVariable(entityset, r[1], r[2]) \/ ~HasVariable(entityset, r[3], r[4])
    THEN "KeyError"
    ELSE IF Entity(entityset, r[1]).index # r[2] THEN "AttributeError"
    ELSE "none"

\* add_relationships with a check of the key values: a relationship is left
\* out when a child key has no parent.
RECURSIVE add_relationships_matched(_, _, _)
add_relationships_matched(entityset, relationships, n) ==
    IF n = 0 THEN entityset
    ELSE LET before == add_relationships_matched(entityset, relationships, n - 1)
             r == relationships[n]
             parents == {Entity(entityset, r[1]).frame.rows[i][r[2]] :
                            i \in DOMAIN Entity(entityset, r[1]).frame.rows}
             children == {Entity(entityset, r[3]).frame.rows[i][r[4]] :
                             i \in DOMAIN Entity(entityset, r[3]).frame.rows}
         IN  IF r \in Range(before.relationships) \/ ~(children \subseteq parents)
             THEN before
             ELSE [before EXCEPT !.relationships = Append(@, r)]

\* es.add_relationships: each relationship is appended unless the entity set
\* has it already; the values of the key columns are not looked at.
RECURSIVE add_relationships(_, _, _)
add_relationships(entityset, relationships, n) ==
    IF n = 0 THEN entityset
    ELSE LET before == add_relationships(entityset, relationships, n - 1)
         IN  IF relationships[n] \in Range(before.relationships) THEN before
             ELSE [before EXCEPT !.relationships = Append(@, relationships[n])]

\* The assembly cell: the registrations, the six ft.Relationship
\* constructions and es.add_relationships, stopping at the first statement
\* that raises.
assemble(dataframes) ==
    LET registered == register(dataframes, Len(Registrations))
        failing == {i \in DOMAIN Relationships :
                       relationship_error(registered.es, Relationships[i]) # "none"}
        first == CHOOSE i \in failing : \A j \in failing : i <= j
    IN  IF registered.error # NoError THEN registered
        ELSE IF failing # {}
             THEN [registered EXCEPT !.error =
                       Raised("entityset",
                              relationship_error(registered.es, Relationships[first]),
                              {Relationships[first][1], Relationships[first][3]})]
        ELSE [registered EXCEPT !.es =
                  add_relationships(@, Relationships, Len(Relationships))]

\* --------------------------------------------------------------- state ----
VARIABLES
    csv,            \* the CSV files on disk
    pc,             \* the cell a Run-All execution is about to run
    run,            \* the number of the execution in this kernel
    error,          \* what the execution raised, NoError while it runs
    client,         \* the pool the name client refers to, 0 when unbound
    pools,          \* the worker pools that are open
    frames,         \* the dataframes of the namespace
    es,             \* the entity set
    cutoff_times,   \* the instance ids of the cutoff-time table
    fm,             \* the feature matrix ft.dfs returned
    dfs_input,      \* the entity set handed to ft.dfs in this execution
    written,        \* fm.to_csv has written the feature matrix in this execution
    fm_computed     \* the materialized feature matrix

vars ==
    <<csv, pc, run, error, client, pools, frames, es, cutoff_times, fm,
      dfs_input, written, fm_computed>>

\* No feature matrix yet.
NoMatrix == [bound |-> FALSE, instance_ids |-> << >>]

Running(cell) == pc = cell /\ error = NoError

\* A fresh kernel: nothing is bound and no pool is open.
Init ==
    /\ csv \in CsvInputs
    /\ pc = "client"
    /\ run = 1
    /\ error = NoError
    /\ client = 0
    /\ pools = {}
    /\ frames = [d \in Datasets |-> Unbound]
    /\ es = NoEntitySet
    /\ cutoff_times = << >>
    /\ fm = NoMatrix
    /\ dfs_input = NoEntitySet
    /\ written = FALSE
    /\ fm_computed = NoMatrix

\* try: client.close() / except: pass / client = Client(n_workers=num_workers)
\* The close raises NameError while client is unbound, which is swallowed;
\* closing a pool that is closed already changes nothing.
\* A close that leaves the pool open.
close_nothing(open, c) == open

close(open, c) == {p \in open : p.id # c}
Client(id, n_workers) == [id |-> id, n_workers |-> n_workers]

\* The client cell without its try: client.close().
ClientSetup_unclosed ==
    /\ Running("client")
    /\ pools' = pools \cup {Client(run, num_workers)}
    /\ client' = run
    /\ pc' = "read"
    /\ UNCHANGED <<csv, run, error, frames, es, cutoff_times, fm, dfs_input,
                   written, fm_computed>>

ClientSetup ==
    /\ Running("client")
    /\ pools' = close(pools, client) \cup {Client(run, num_workers)}
    /\ client' = run
    /\ pc' = "read"
    /\ UNCHANGED <<csv, run, error, frames, es, cutoff_times, fm, dfs_input,
                   written, fm_computed>>

\* The ingestion cell: the eight reads in order.  A read that fails (the file
\* cannot be read) ends the cell: the names read before it are bound to the
\* new dataframes, the others keep what they had.
ReadCsv ==
    /\ Running("read")
    /\ \E k \in 0..Len(ReadOrder) :
          /\ frames' = [d \in Datasets |->
                           IF d \in Files /\ IndexOf(ReadOrder, d) <= k
                           THEN read_csv(csv, d) ELSE frames[d]]
          /\ IF k = Len(ReadOrder)
             THEN pc' = "cleanup" /\ error' = error
             ELSE pc' = pc /\ error' = Raised("read", "IOError", {ReadOrder[k + 1]})
    /\ UNCHANGED <<csv, run, client, pools, es, cutoff_times, fm, dfs_input,
                   written, fm_computed>>

\* The cleanup cell.  app_test gets a TARGET column; app is app_train with
\* the app_train columns of app_test appended, a KeyError when app_test lacks
\* one of them; the key columns of the seven datasets are cleaned; SK_ID_CURR
\* is dropped from installments, credit and cash.
with_target(frame) == Frame(frame.columns \cup {"TARGET"}, frame.rows)

cleaned(dataframes) ==
    LET app_test == with_target(dataframes["app_test"])
        app == append(dataframes["app_train"],
                      select(app_test, dataframes["app_train"].columns))
        bound == [d \in Datasets |->
                     CASE d = "app_test" -> app_test
                       [] d = "app" -> app
                       [] OTHER -> dataframes[d]]
        keyed == [d \in Datasets |->
                     IF d \in CleanedDatasets
                     THEN clean_keys(bound[d], Len(KeyColumns)) ELSE bound[d]]
    IN  [d \in Datasets |->
            IF d \in DroppedDatasets THEN drop(keyed[d], "SK_ID_CURR") ELSE keyed[d]]

Cleanup ==
    /\ Running("cleanup")
    /\ IF ~(frames["app_train"].columns \subseteq
                with_target(frames["app_test"]).columns)
       THEN /\ frames' = [frames EXCEPT !["app_test"] = with_target(@)]
            /\ error' = Raised("cleanup", "KeyError", {"app_test"})
            /\ pc' = pc
       ELSE /\ frames' = cleaned(frames)
            /\ error' = error
            /\ pc' = "entityset"
    /\ UNCHANGED <<csv, run, client, pools, es, cutoff_times, fm, dfs_input,
                   written, fm_computed>>

\* The assembly cell with its exception swallowed: the run goes on.
AssembleEntitySet_swallowing ==
    /\ Running("entityset")
    /\ es' = assemble(frames).es
    /\ error' = error
    /\ pc' = "cutoff"
    /\ UNCHANGED <<csv, run, client, pools, frames, cutoff_times, fm, dfs_input,
                   written, fm_computed>>

\* The assembly cell.  Whatever it raises, es is rebound by its first
\* statement and holds the entities registered before the failing one.
AssembleEntitySet ==
    /\ Running("entityset")
    /\ LET assembled == assemble(frames)
       IN  /\ es' = assembled.es
           /\ error' = assembled.error
           /\ pc' = IF assembled.error = NoError THEN "cutoff" ELSE pc
    /\ UNCHANGED <<csv, run, client, pools, frames, cutoff_times, fm, dfs_input,
                   written, fm_computed>>

\* cutoff_times: the SK_ID_CURR column of app as instance_id, computed.  The
\* computation reads the files and can fail.
instance_ids(frame) == [i \in DOMAIN frame.rows |-> frame.rows[i]["SK_ID_CURR"]]

CutoffTimes ==
    /\ Running("cutoff")
    /\ \E ok \in BOOLEAN :
          IF ok
          THEN /\ cutoff_times' = instance_ids(frames["app"])
               /\ error' = error
               /\ pc' = "dfs"
          ELSE /\ cutoff_times' = cutoff_times
               /\ error' = Raised("cutoff", "IOError", {"app"})
               /\ pc' = pc
    /\ UNCHANGED <<csv, run, client, pools, frames, es, fm, dfs_input, written,
                   fm_computed>>

\* ft.dfs(entityset=es, target_entity="app", ..., cutoff_time=cutoff_times):
\* one row of the feature matrix per instance of the cutoff-time table.
dfs(entityset, target_entity, cutoff_time) ==
    [bound |-> TRUE, instance_ids |-> cutoff_time]

\* ft.dfs altering the entity set it is given: a relationship is lost.
Dfs_mutating ==
    /\ Running("dfs")
    /\ dfs_input' = es
    /\ es' = [es EXCEPT !.relationships = Tail(@)]
    /\ fm' = dfs(es, "app", cutoff_times)
    /\ pc' = "to_csv"
    /\ UNCHANGED <<csv, run, error, client, pools, frames, cutoff_times, written,
                   fm_computed>>

Dfs ==
    /\ Running("dfs")
    /\ dfs_input' = es
    /\ \E ok \in BOOLEAN :
          IF ok
          THEN /\ fm' = dfs(es, "app", cutoff_times)
               /\ error' = error
               /\ pc' = "to_csv"
          ELSE /\ fm' = fm
               /\ error' = Raised("dfs", "MemoryError", {})
               /\ pc' = pc
    /\ UNCHANGED <<csv, run, client, pools, frames, es, cutoff_times, written,
                   fm_computed>>

\* fm.to_csv(...): may fail for lack of memory.
ToCsv ==
    /\ Running("to_csv")
    /\ \E ok \in BOOLEAN :
          IF ok
          THEN written' = TRUE /\ error' = error /\ pc' = "compute"
          ELSE written' = written /\ error' = Raised("to_csv", "MemoryError", {})
                  /\ pc' = pc
    /\ UNCHANGED <<csv, run, client, pools, frames, es, cutoff_times, fm,
                   dfs_input, fm_computed>>

\* fm_computed = fm.compute(): may fail for lack of memory.
Compute ==
    /\ Running("compute")
    /\ \E ok \in BOOLEAN :
          IF ok
          THEN fm_computed' = fm /\ error' = error /\ pc' = "close"
          ELSE fm_computed' = fm_computed
                  /\ error' = Raised("compute", "MemoryError", {}) /\ pc' = pc
    /\ UNCHANGED <<csv, run, client, pools, frames, es, cutoff_times, fm,
                   dfs_input, written>>

\* The last cell: client.close()
CloseClient ==
    /\ Running("close")
    /\ pools' = close(pools, client)
    /\ pc' = "done"
    /\ UNCHANGED <<csv, run, error, client, frames, es, cutoff_times, fm,
                   dfs_input, written, fm_computed>>

\* The run has ended: its last cell has run, or a cell has raised.
Ended == pc = "done" \/ error # NoError

\* Run All again in the same kernel: the namespace and the pools stay.
RunAgain ==
    /\ Ended
    /\ run < MaxRuns
    /\ run' = run + 1
    /\ pc' = "client"
    /\ error' = NoError
    /\ dfs_input' = NoEntitySet
    /\ written' = FALSE
    /\ UNCHANGED <<csv, client, pools, frames, es, cutoff_times, fm, fm_computed>>

Next ==
    \/ ClientSetup
    \/ ReadCsv
    \/ Cleanup
    \/ AssembleEntitySet
    \/ CutoffTimes
    \/ Dfs
    \/ ToCsv
    \/ Compute
    \/ CloseClient
    \/ RunAgain

Spec == Init /\ [][Next]_vars


\* ============================================================ properties ====
\* The cells after the assembly cell: the run is there only when the
\* assembly cell has returned.
AfterAssembly == {"cutoff", "dfs", "to_csv", "compute", "close", "done"}
Assembled == pc \in AfterAssembly

\* The values of a column of a dataframe, row by row.
Column(frame, column) == [i \in DOMAIN frame.rows |-> frame.rows[i][column]]
Distinct(s) == \A i, j \in DOMAIN s : s[i] = s[j] => i = j

\* The entities registered with and without make_index.
MadeIndex == {Registrations[i].entity_id : i \in {j \in DOMAIN Registrations :
                                                     Registrations[j].make_index}}
GivenIndex == {Registrations[i].entity_id : i \in {j \in DOMAIN Registrations :
                                                      ~Registrations[j].make_index}}

\* C1: in every entity registered with make_index=True, every row has a value
\* in the generated index column, the values are distinct and they are
\* exactly 0 .. n-1 for the n rows of the table.
C1_MakeIndexDense ==
    \A k \in DOMAIN es.entities :
        LET e == es.entities[k]
            n == Len(e.frame.rows)
        IN  e.id \in MadeIndex =>
                /\ e.index \in e.frame.columns
                /\ \A i \in 1..n : e.index \in DOMAIN e.frame.rows[i]
                /\ Distinct(Column(e.frame, e.index))
                /\ Range(Column(e.frame, e.index)) = 0..(n - 1)

C1_Witness ==
    /\ Assembled
    /\ Len(Entity(es, "cash").frame.rows) = MaxInput
    /\ Entity(es, "cash").index = "cash_index"

\* C2: an entity registered without make_index whose index column repeats a
\* value is never part of an entity set handed to ft.dfs: the assembly cell
\* raises instead.
C2_DuplicateIndexRejected ==
    \A k \in DOMAIN dfs_input.entities :
        LET e == dfs_input.entities[k]
        IN  e.id \in GivenIndex => Distinct(Column(e.frame, e.index))

\* The tables whose dataframe has a column without a variable type when the
\* assembly cell runs.
Untyped(dataframes) ==
    {Registrations[i].entity_id : i \in {j \in DOMAIN Registrations :
        \E c \in dataframes[Registrations[j].dataframe].columns :
            c \notin DOMAIN Registrations[j].variable_types}}

\* The first registration, in the order of the cell, that raises.
FirstFailing(dataframes) ==
    LET failing == {i \in DOMAIN Registrations :
                       entity_error(dataframes[Registrations[i].dataframe],
                                    Registrations[i].index,
                                    Registrations[i].variable_types,
                                    Registrations[i].make_index) # "none"}
    IN  IF failing = {} THEN 0
        ELSE CHOOSE i \in failing : \A j \in failing : i <= j

Between(entityset, parent, child) ==
    {i \in DOMAIN entityset.relationships :
        entityset.relationships[i][1] = parent /\ entityset.relationships[i][3] = child}

C5_OneRelationshipNoValueCheck ==
    /\ Assembled =>
          /\ Cardinality(Between(es, "app", "bureau")) = 1
          /\ \A i \in Between(es, "app", "bureau") :
                 es.relationships[i] = <<"app", "SK_ID_CURR", "bureau", "SK_ID_CURR">>
    /\ error.cell = "entityset" => FirstFailing(frames) # 0

\* A bureau row whose SK_ID_CURR is no SK_ID_CURR of app, in an assembled set.
C5_Witness ==
    /\ Assembled
    /\ \E v \in Range(Column(Entity(es, "bureau").frame, "SK_ID_CURR")) :
           v \notin Range(Column(Entity(es, "app").frame, "SK_ID_CURR"))

\* The dataframe has a tracked cell with the value v.
HasValue(frame, v) ==
    \E i \in DOMAIN frame.rows : \E c \in DOMAIN frame.rows[i] : frame.rows[i][c] = v

\* C6: when the ingestion cell has returned, every dataframe is its file with
\* every cell that held 365243 now missing and every other cell as it was;
\* normalizing it once more changes nothing; and from then on no dataframe of
\* the namespace and no table of the entity set holds 365243.
C6_SentinelNormalized ==
    /\ \A d \in Datasets : ~HasValue(frames[d], SENTINEL)
    /\ \A k \in DOMAIN es.entities : ~HasValue(es.entities[k].frame, SENTINEL)
    /\ Running("cleanup") =>
          \A f \in Files :
              /\ frames[f].columns = csv[f].columns
              /\ DOMAIN frames[f].rows = DOMAIN csv[f].rows
              /\ \A i \in DOMAIN csv[f].rows :
                     /\ DOMAIN frames[f].rows[i] = DOMAIN csv[f].rows[i]
                     /\ \A c \in DOMAIN csv[f].rows[i] :
                            frames[f].rows[i][c] =
                                IF csv[f].rows[i][c] = SENTINEL THEN NaN
                                ELSE csv[f].rows[i][c]
              /\ replace(frames[f], SENTINEL, NaN) = frames[f]

\* A file with 365243 in a column that is no key has been read.
C6_Witness ==
    /\ Running("cleanup")
    /\ \E i \in DOMAIN csv["app_train"].rows :
           csv["app_train"].rows[i]["DAYS_EMPLOYED"] = SENTINEL
    /\ HasValue(csv["previous"], SENTINEL)

\* The variable types the dictionaries use.
VariableTypes == {"Index", "Id", "Numeric", "Categorical", "Boolean"}
AllEntities ==
    {"app", "bureau", "previous", "bureau_balance", "cash", "installments", "credit"}

\* C7: in every table of the entity set every column has one variable type,
\* the index column has type Index and no other column has; an assembled
\* entity set has the seven tables.
C7_ColumnsTyped ==
    /\ \A k \in DOMAIN es.entities :
          LET e == es.entities[k]
          IN  /\ DOMAIN e.variables = e.frame.columns
              /\ \A c \in e.frame.columns : e.variables[c] \in VariableTypes
              /\ e.index \in e.frame.columns
              /\ {c \in e.frame.columns : e.variables[c] = "Index"} = {e.index}
    /\ \A j, k \in DOMAIN es.entities :
          es.entities[j].id = es.entities[k].id => j = k
    /\ Assembled => EntityIds(es) = AllEntities

C7_Witness ==
    /\ Assembled
    /\ Len(es.entities) = 7
    /\ \E f \in Files : UntypedColumn \in csv[f].columns

\* The registration of an entity.
RegistrationOf(entity_id) ==
    Registrations[CHOOSE i \in DOMAIN Registrations :
                      Registrations[i].entity_id = entity_id]

\* C8: every relationship of the entity set, and each of the six the
\* notebook declares, goes from the column declared Index in its parent table
\* to a column of its child table that is declared Id, both tables being
\* tables of the graph; an assembled entity set has the six.
C8_RelationshipsWellFormed ==
    /\ \A i \in DOMAIN es.relationships :
          LET r == es.relationships[i]
          IN  /\ r[1] \in EntityIds(es) /\ r[3] \in EntityIds(es)
              /\ Entity(es, r[1]).index = r[2]
              /\ r[2] \in Entity(es, r[1]).frame.columns
              /\ Entity(es, r[1]).variables[r[2]] = "Index"
              /\ r[4] \in Entity(es, r[3]).frame.columns
              /\ Entity(es, r[3]).variables[r[4]] = "Id"
    /\ \A i \in DOMAIN Relationships :
          LET r == Relationships[i]
          IN  /\ r[1] \in AllEntities /\ r[3] \in AllEntities
              /\ RegistrationOf(r[1]).index = r[2]
              /\ r[2] \in DOMAIN RegistrationOf(r[1]).variable_types
              /\ RegistrationOf(r[1]).variable_types[r[2]] = "Index"
              /\ r[4] \in DOMAIN RegistrationOf(r[3]).variable_types
              /\ RegistrationOf(r[3]).variable_types[r[4]] = "Id"
    /\ Assembled => es.relationships = Relationships

C8_Witness ==
    /\ Assembled
    /\ Len(es.relationships) = 6

\* C9: ft.dfs is called only when the cells before it have returned: the
\* entity set it is given has the seven tables and the six relationships;
\* and a run whose ingestion, cleanup or assembly cell raised has not called
\* ft.dfs and has produced no feature matrix.
BeforeSynthesis == {"client", "read", "cleanup", "entityset", "cutoff"}

C9_SynthesisAfterAssembly ==
    /\ dfs_input # NoEntitySet =>
          /\ pc \notin BeforeSynthesis
          /\ dfs_input = es
          /\ EntityIds(dfs_input) = AllEntities
          /\ dfs_input.relationships = Relationships
    /\ pc \in BeforeSynthesis => dfs_input = NoEntitySet /\ ~written

C9_Witness ==
    /\ pc = "to_csv"
    /\ dfs_input # NoEntitySet
    /\ fm.bound

\* C10 as claimed: no run ends with a worker pool open.
C10_PoolClosedOnEveryExit ==
    Ended => pools = {}

\* C10 as amended: the pool of a run is closed when the run reaches its last
\* cell; a run that a raising cell ends leaves its pool open, and the pool
\* stays open until the client cell of the next run closes it.
C10_PoolClosedOnCompletionOnly ==
    /\ pc = "done" => pools = {}
    /\ error # NoError => pools = {Client(run, num_workers)}
    /\ pc = "client" => \A p \in pools : p.id = run - 1
    /\ pc \notin {"client", "done"} => pools = {Client(run, num_workers)}

C10_Witness ==
    /\ run = 2
    /\ pc = "read"
    /\ error # NoError
    /\ fm.bound

\* C11: once the assembly cell has returned, no later step of the run changes
\* the entity set: the cutoff-time cell, ft.dfs, fm.to_csv, fm.compute and
\* client.close leave its tables, variable types and relationships as they
\* were.
C11_GraphUnchangedAfterAssembly ==
    [][Assembled => es' = es]_vars

C11_Witness ==
    /\ pc = "done"
    /\ written
    /\ fm_computed.bound
    /\ Len(es.entities) = 7
    /\ es.relationships = Relationships
    /\ dfs_input = es

\* C13: a table is registered only when none of the four schema problems is
\* present (a typed column absent from the data, a column without a type, a
\* table name registered already, a repeated index value without
\* make_index), and the error of a registration that is refused names its
\* table and has a kind of its own per problem.
C13_RegistrationRejectsSchemaProblems ==
    /\ \A k \in DOMAIN es.entities :
          LET e == es.entities[k]
          IN  /\ DOMAIN e.variables \subseteq e.frame.columns
              /\ e.frame.columns \subseteq DOMAIN e.variables
              /\ \A j \in DOMAIN es.entities : es.entities[j].id = e.id => j = k
              /\ e.id \in GivenIndex => Distinct(Column(e.frame, e.index))
    /\ error.cell = "entityset" =>
          /\ Cardinality(error.names) = 1
          /\ error.kind \in {"LookupError", "ValueError", "RuntimeError"}

\* C14: at most one worker pool is open at any time, and an open pool has the
\* configured number of workers; the client cell leaves exactly the pool of
\* its run open, whether client was unbound (first run, the failing close is
\* swallowed) or referred to the pool of an earlier run, open or closed.
C14_AtMostOnePool ==
    /\ Cardinality(pools) <= 1
    /\ \A p \in pools : p.n_workers = primitive_dict[version][3]
    /\ client = 0 <=> (run = 1 /\ pc = "client")
    /\ pc = "read" => client = run /\ pools = {Client(run, primitive_dict[version][3])}

\* The second run has begun after a first that ended before ft.dfs, its pool
\* open.
C14_Witness ==
    /\ run = 2
    /\ pc = "read"
    /\ error = NoError
    /\ ~fm.bound
    /\ Cardinality(pools) = 1

\* The parent-child edges of a list of relationships.
Edges(relationships) ==
    {<<relationships[i][1], relationships[i][3]>> : i \in DOMAIN relationships}

\* The tables reached from the tables S in at most n steps along the edges.
RECURSIVE Reached(_, _, _)
Reached(edges, S, n) ==
    IF n = 0 THEN S
    ELSE Reached(edges, S \cup {e[2] : e \in {x \in edges : x[1] \in S}}, n - 1)

\* The tables below t: reached from its children.
Below(edges, t) ==
    Reached(edges, {e[2] : e \in {x \in edges : x[1] = t}}, Cardinality(AllEntities))

\* The six edges form a tree below app.
RootedAtApp(relationships) ==
    LET edges == Edges(relationships)
    IN  /\ Len(relationships) = 6
        /\ edges = {<<"app", "bureau">>, <<"bureau", "bureau_balance">>,
                    <<"app", "previous">>, <<"previous", "cash">>,
                    <<"previous", "installments">>, <<"previous", "credit">>}
        /\ \A t \in AllEntities \ {"app"} :
               Cardinality({e \in edges : e[2] = t}) = 1
        /\ {e \in edges : e[2] = "app"} = {}
        /\ Below(edges, "app") = AllEntities \ {"app"}
        /\ \A t \in AllEntities : t \notin Below(edges, t)

\* C15: the relationships the notebook declares, and those of every assembled
\* entity set, are exactly the six edges app->bureau, bureau->bureau_balance,
\* app->previous, previous->cash, previous->installments, previous->credit;
\* every table but app has exactly one parent, every table is reached from
\* app, and no table is reached from itself.
C15_RelationshipsRootedAtApp ==
    /\ RootedAtApp(Relationships)
    /\ Assembled => RootedAtApp(es.relationships)

C15_Witness ==
    /\ pc = "compute"
    /\ error = NoError
    /\ Len(es.relationships) = 6
    /\ Below(Edges(es.relationships), "app") = AllEntities \ {"app"}

\* The rows of the files a cleaned dataset comes from.
RawRows(d) ==
    IF d = "app" THEN csv["app_train"].rows \o csv["app_test"].rows
    ELSE csv[d].rows

\* C16: when the cleanup cell has returned, two rows of a cleaned dataset
\* share a value in a key column only if they shared it in the files; so a
\* key column whose values were all distinct still has them all distinct.
C16_CleanupKeepsKeysDistinct ==
    pc \in {"entityset"} \cup AfterAssembly =>
        \A d \in CleanedDatasets :
            \A i, j \in DOMAIN frames[d].rows :
                \A c \in DOMAIN frames[d].rows[i] \cap Range(KeyColumns) :
                    frames[d].rows[i][c] = frames[d].rows[j][c] =>
                        RawRows(d)[i][c] = RawRows(d)[j][c]
=============================================================================
